---- MODULE Spec2Model ----
(***************************************************************************)
(* Model of ir_cli/src/abi/mod.rs: the ABI metadata container              *)
(* (IRContractABIMeta), the metadata builder (from_contract), the lookup   *)
(* (get_method), the textual parameter parser (input_type_to_abi_param)    *)
(* and the encoding driver (IRContractMethodMeta::encode_params).          *)
(*                                                                         *)
(* Strings are sequences of one-character strings, so that split, find,    *)
(* rfind, starts_with and slicing are computed as the code computes them.  *)
(* Integers of every width are decimal digit sequences (TLC's integers are *)
(* 32 bits wide, the code's go up to 128).                                 *)
(***************************************************************************)
EXTENDS Integers, Sequences, FiniteSets, TLC

VARIABLES
    input_type_name,  \* argument of input_type_to_abi_param
    param_str,        \* argument of input_type_to_abi_param
    out,              \* its outcome: Ok(value), Err(message) or a panic
    self_inputs,      \* encode_params: self.inputs, as the list of type names
    params_strings,   \* encode_params: the tokens
    pc,               \* encode_params: position in the function
    i,                \* encode_params: loop index
    result,           \* encode_params: the local byte buffer
    ret,              \* encode_params: the returned value
    functions,        \* from_contract: contract.functions in iteration order
    abi,              \* the IRContractABIMeta
    abi_method_name,  \* get_method: the argument
    found             \* get_method: the Option returned

vars == <<input_type_name, param_str, out, self_inputs, params_strings, pc, i,
          result, ret, functions, abi, abi_method_name, found>>

parseVars == <<input_type_name, param_str, out>>
encodeVars == <<self_inputs, params_strings, pc, i, result, ret>>
abiVars == <<functions, abi, abi_method_name, found>>

-----------------------------------------------------------------------------
(* String literals of the source, as character sequences.                  *)

S_bool == <<"b", "o", "o", "l">>
S_str == <<"s", "t", "r">>
S_string == <<"s", "t", "r", "i", "n", "g">>
S_parampack == <<"p", "a", "r", "a", "m", "p", "a", "c", "k">>
S_u8 == <<"u", "8">>
S_i8 == <<"i", "8">>
S_u16 == <<"u", "1", "6">>
S_i16 == <<"i", "1", "6">>
S_u32 == <<"u", "3", "2">>
S_i32 == <<"i", "3", "2">>
S_u64 == <<"u", "6", "4">>
S_i64 == <<"i", "6", "4">>
S_u128 == <<"u", "1", "2", "8">>
S_i128 == <<"i", "1", "2", "8">>
S_true == <<"t", "r", "u", "e">>
S_false == <<"f", "a", "l", "s", "e">>
S_init == <<"i", "n", "i", "t">>
S_void == <<"v", "o", "i", "d">>

-----------------------------------------------------------------------------
(* Outcomes of a call: a returned Ok, a returned Err, or a panic (unwrap   *)
(* of an Err, or a slice whose start lies after its end), which unwinds    *)
(* out of the function without returning anything.                         *)

Ok(v) == [kind |-> "Ok", value |-> v]
Err(m) == [kind |-> "Err", msg |-> m]
Panic == [kind |-> "Panic"]
NoOutcome == [kind |-> "Pending"]

ABIParam(variant, data) == [variant |-> variant, data |-> data]

-----------------------------------------------------------------------------
(* str primitives of the standard library.                                 *)

\* s.starts_with(c)
starts_with(s, c) == Len(s) > 0 /\ s[1] = c

\* s.find(c): the 0-based position of the first c, or -1 for None
find(s, c) ==
    IF \E k \in 1..Len(s) : s[k] = c
    THEN (CHOOSE k \in 1..Len(s) : s[k] = c /\ \A j \in 1..(k - 1) : s[j] # c) - 1
    ELSE -1

\* s.rfind(c): the 0-based position of the last c, or -1 for None
rfind(s, c) ==
    IF \E k \in 1..Len(s) : s[k] = c
    THEN (CHOOSE k \in 1..Len(s) : s[k] = c /\ \A j \in (k + 1)..Len(s) : s[j] # c) - 1
    ELSE -1

\* s[a..b] (0-based, b exclusive) panics unless a <= b <= s.len()
slice_panics(s, a, b) == a > b \/ b > Len(s)
slice(s, a, b) == SubSeq(s, a + 1, b)

\* s.split(c).collect(): the pieces between the separators; "" gives [""]
RECURSIVE split(_, _)
split(s, c) ==
    LET p == find(s, c)
    IN  IF p = -1 THEN <<s>>
        ELSE <<slice(s, 0, p)>> \o split(slice(s, p + 1, Len(s)), c)

-----------------------------------------------------------------------------
(* Integers: <int>::from_str (core::num, radix 10) on a value of w bits.   *)

DigitChars == {"0", "1", "2", "3", "4", "5", "6", "7", "8", "9"}

to_digit(c) ==
    CASE c = "0" -> 0 [] c = "1" -> 1 [] c = "2" -> 2 [] c = "3" -> 3
      [] c = "4" -> 4 [] c = "5" -> 5 [] c = "6" -> 6 [] c = "7" -> 7
      [] c = "8" -> 8 [] c = "9" -> 9

\* a magnitude is a digit sequence without leading zeros (<<0>> for zero)
RECURSIVE StripZeros(_)
StripZeros(ds) ==
    IF Len(ds) > 1 /\ ds[1] = 0 THEN StripZeros(Tail(ds)) ELSE ds

RECURSIVE LexLeq(_, _)
LexLeq(a, b) ==
    IF a = <<>> THEN TRUE
    ELSE IF a[1] # b[1] THEN a[1] < b[1]
    ELSE LexLeq(Tail(a), Tail(b))

MagLeq(a, b) == Len(a) < Len(b) \/ (Len(a) = Len(b) /\ LexLeq(a, b))

\* <int>::MAX, and the magnitude of <int>::MIN when neg
IntLimit(w, signed, neg) ==
    CASE w = 8 -> IF signed THEN (IF neg THEN <<1, 2, 8>> ELSE <<1, 2, 7>>)
                  ELSE <<2, 5, 5>>
      [] w = 16 -> IF signed THEN (IF neg THEN <<3, 2, 7, 6, 8>> ELSE <<3, 2, 7, 6, 7>>)
                   ELSE <<6, 5, 5, 3, 5>>
      [] w = 32 -> IF signed
                   THEN (IF neg THEN <<2, 1, 4, 7, 4, 8, 3, 6, 4, 8>>
                         ELSE <<2, 1, 4, 7, 4, 8, 3, 6, 4, 7>>)
                   ELSE <<4, 2, 9, 4, 9, 6, 7, 2, 9, 5>>
      [] w = 64 -> IF signed
                   THEN (IF neg
                         THEN <<9, 2, 2, 3, 3, 7, 2, 0, 3, 6, 8, 5, 4, 7, 7, 5, 8, 0, 8>>
                         ELSE <<9, 2, 2, 3, 3, 7, 2, 0, 3, 6, 8, 5, 4, 7, 7, 5, 8, 0, 7>>)
                   ELSE <<1, 8, 4, 4, 6, 7, 4, 4, 0, 7, 3, 7, 0, 9, 5, 5, 1, 6, 1, 5>>
      [] w = 128 -> IF signed
                    THEN (IF neg
                          THEN <<1, 7, 0, 1, 4, 1, 1, 8, 3, 4, 6, 0, 4, 6, 9, 2, 3, 1, 7,
                                 3, 1, 6, 8, 7, 3, 0, 3, 7, 1, 5, 8, 8, 4, 1, 0, 5, 7, 2, 8>>
                          ELSE <<1, 7, 0, 1, 4, 1, 1, 8, 3, 4, 6, 0, 4, 6, 9, 2, 3, 1, 7,
                                 3, 1, 6, 8, 7, 3, 0, 3, 7, 1, 5, 8, 8, 4, 1, 0, 5, 7, 2, 7>>)
                    ELSE <<3, 4, 0, 2, 8, 2, 3, 6, 6, 9, 2, 0, 9, 3, 8, 4, 6, 3, 4, 6,
                           3, 3, 7, 4, 6, 0, 7, 4, 3, 1, 7, 6, 8, 2, 1, 1, 4, 5, 5>>

IntValue(neg, mag) == [neg |-> neg /\ mag # <<0>>, mag |-> mag]

\* the digit loop: result = result * 10 +/- digit, each step checked
RECURSIVE accumulate(_, _, _, _, _)
accumulate(digits, acc, w, signed, neg) ==
    IF digits = <<>> THEN Ok(IntValue(neg, acc))
    ELSE IF Head(digits) \notin DigitChars
         THEN Err("invalid digit found in string")
    ELSE LET next == StripZeros(acc \o <<to_digit(Head(digits))>>)
         IN  IF ~MagLeq(next, IntLimit(w, signed, neg))
             THEN Err(IF neg THEN "number too small to fit in target type"
                      ELSE "number too large to fit in target type")
             ELSE accumulate(Tail(digits), next, w, signed, neg)

from_str(src, w, signed) ==
    IF src = <<>> THEN Err("cannot parse integer from empty string")
    ELSE IF src[1] \in {"+", "-"} /\ Len(src) = 1
         THEN Err("invalid digit found in string")
    ELSE IF src[1] = "+" THEN accumulate(Tail(src), <<0>>, w, signed, FALSE)
    ELSE IF src[1] = "-" /\ signed THEN accumulate(Tail(src), <<0>>, w, signed, TRUE)
    ELSE accumulate(src, <<0>>, w, signed, FALSE)

\* bool::from_str
bool_from_str(s) ==
    IF s = S_true THEN Ok(TRUE)
    ELSE IF s = S_false THEN Ok(FALSE)
    ELSE Err("provided string was not true or false")

-----------------------------------------------------------------------------
(* hex::decode                                                             *)

HexChars == DigitChars \cup {"a", "b", "c", "d", "e", "f", "A", "B", "C", "D", "E", "F"}

hex_val(c) ==
    IF c \in DigitChars THEN to_digit(c)
    ELSE CASE c \in {"a", "A"} -> 10 [] c \in {"b", "B"} -> 11 [] c \in {"c", "C"} -> 12
           [] c \in {"d", "D"} -> 13 [] c \in {"e", "E"} -> 14 [] c \in {"f", "F"} -> 15

hex_decode(s) ==
    IF Len(s) % 2 # 0 THEN Err("Odd number of digits")
    ELSE IF \E k \in 1..Len(s) : s[k] \notin HexChars
         THEN Err("Invalid character in hex string")
    ELSE Ok([k \in 1..(Len(s) \div 2) |-> 16 * hex_val(s[2 * k - 1]) + hex_val(s[2 * k])])

-----------------------------------------------------------------------------
(* input_type_to_abi_param: the type-name dispatch and the value parser.   *)

\* the ten integer arms of the match, which differ in the type alone
IntTypes ==
    { [name |-> S_u8, w |-> 8, signed |-> FALSE, variant |-> "U8"],
      [name |-> S_i8, w |-> 8, signed |-> TRUE, variant |-> "I8"],
      [name |-> S_u16, w |-> 16, signed |-> FALSE, variant |-> "U16"],
      [name |-> S_i16, w |-> 16, signed |-> TRUE, variant |-> "I16"],
      [name |-> S_u32, w |-> 32, signed |-> FALSE, variant |-> "U32"],
      [name |-> S_i32, w |-> 32, signed |-> TRUE, variant |-> "I32"],
      [name |-> S_u64, w |-> 64, signed |-> FALSE, variant |-> "U64"],
      [name |-> S_i64, w |-> 64, signed |-> TRUE, variant |-> "I64"],
      [name |-> S_u128, w |-> 128, signed |-> FALSE, variant |-> "U128"],
      [name |-> S_i128, w |-> 128, signed |-> TRUE, variant |-> "I128"] }

IsIntType(name) == \E t \in IntTypes : t.name = name
IntType(name) == CHOOSE t \in IntTypes : t.name = name

ErrArg(m, arg) == [kind |-> "Err", msg |-> m, arg |-> arg]

\* scalar_param with the "i16" arm parsing with u16::from_str (a copied arm)
scalar_param_copied_arm(type_name, s) ==
    IF type_name = S_bool THEN Ok(ABIParam(<<"Bool">>, s = S_true))
    ELSE IF type_name \in {S_str, S_string} THEN Ok(ABIParam(<<"Str">>, s))
    ELSE IF type_name = S_parampack
         THEN LET bs == hex_decode(s)
              IN  IF bs.kind = "Err" THEN Err(bs.msg)
                  ELSE Ok(ABIParam(<<"Parampack">>, bs.value))
    ELSE LET t == IntType(type_name)
             int_value == from_str(s, t.w, t.signed /\ type_name # S_i16)
         IN  IF int_value.kind = "Err" THEN Err(int_value.msg)
             ELSE Ok(ABIParam(<<t.variant>>, int_value.value))

\* the scalar arms: "bool", "str" | "string", "parampack" and the integers
scalar_param(type_name, s) ==
    IF type_name = S_bool THEN Ok(ABIParam(<<"Bool">>, s = S_true))
    ELSE IF type_name \in {S_str, S_string} THEN Ok(ABIParam(<<"Str">>, s))
    ELSE IF type_name = S_parampack
         THEN LET bs == hex_decode(s)
              IN  IF bs.kind = "Err" THEN Err(bs.msg)
                  ELSE Ok(ABIParam(<<"Parampack">>, bs.value))
    ELSE LET t == IntType(type_name)
             int_value == from_str(s, t.w, t.signed)
         IN  IF int_value.kind = "Err" THEN Err(int_value.msg)
             ELSE Ok(ABIParam(<<t.variant>>, int_value.value))

\* IsInnerType with the "str" | "string" arms matching "str" alone
IsInnerType_no_alias(inner) == inner \in {S_bool, S_str} \/ IsIntType(inner)

\* the inner types the array and map arms match on: bool, str | string and
\* the ten integers (parampack is not among them)
IsInnerType(inner) == inner \in {S_bool, S_str, S_string} \/ IsIntType(inner)

InnerVariant(inner) ==
    IF inner = S_bool THEN "Bool"
    ELSE IF inner \in {S_str, S_string} THEN "Str"
    ELSE IntType(inner).variant

\* what one loop iteration evaluates for an item: bool::from_str(item),
\* item.to_string(), or <int>::from_str(item)
item_from_str(inner, item) ==
    IF inner = S_bool THEN bool_from_str(item)
    ELSE IF inner \in {S_str, S_string} THEN Ok(item)
    ELSE from_str(item, IntType(inner).w, IntType(inner).signed)

\* for item in array_params { values.push(T::from_str(item).unwrap()) }
array_param(inner, array_params) ==
    LET parsed == [k \in 1..Len(array_params) |-> item_from_str(inner, array_params[k])]
    IN  IF \E k \in 1..Len(parsed) : parsed[k].kind = "Err" THEN Panic
        ELSE Ok(ABIParam(<<InnerVariant(inner), "Array">>,
                         [k \in 1..Len(parsed) |-> parsed[k].value]))

\* map_insert_all keeping the first value of a key (entry(key).or_insert(value))
RECURSIVE map_insert_all_keep_first(_, _, _, _)
map_insert_all_keep_first(inner, params_keys, params_values, values) ==
    IF params_keys = <<>> THEN Ok(values)
    ELSE LET v == item_from_str(inner, Head(params_values))
             key == Head(params_keys)
         IN  IF v.kind = "Err" THEN Panic
             ELSE map_insert_all_keep_first(
                      inner, Tail(params_keys), Tail(params_values),
                      [k \in DOMAIN values \cup {key} |->
                          IF k \in DOMAIN values THEN values[k] ELSE v.value])

\* for i in 0..params_keys.len() { values.insert(key, T::from_str(item).unwrap()) }
RECURSIVE map_insert_all(_, _, _, _)
map_insert_all(inner, params_keys, params_values, values) ==
    IF params_keys = <<>> THEN Ok(values)
    ELSE LET v == item_from_str(inner, Head(params_values))
             key == Head(params_keys)
         IN  IF v.kind = "Err" THEN Panic
             ELSE map_insert_all(inner, Tail(params_keys), Tail(params_values),
                                 [k \in DOMAIN values \cup {key} |->
                                     IF k = key THEN v.value ELSE values[k]])

EmptyMap == [k \in {} |-> 0]

map_param(inner, params_keys, params_values) ==
    LET m == map_insert_all(inner, params_keys, params_values, EmptyMap)
    IN  IF m.kind = "Panic" THEN Panic
        ELSE Ok(ABIParam(<<"Str", InnerVariant(inner), "Map">>, m.value))

\* pairs_ok with the comparison off by one (splited.len() <= 2 rejected)
pairs_ok_off_by_one(params_pairs) ==
    \A k \in 1..Len(params_pairs) : Len(split(params_pairs[k], ":")) > 2

\* the loop over params_pairs: the first pair with fewer than two pieces
\* returns the error, before any value is parsed
pairs_ok(params_pairs) ==
    \A k \in 1..Len(params_pairs) : Len(split(params_pairs[k], ":")) >= 2

input_type_to_abi_param(type_name, s) ==
    IF type_name \in {S_bool, S_str, S_string, S_parampack} \/ IsIntType(type_name)
    THEN scalar_param(type_name, s)
    ELSE IF starts_with(type_name, "[")
    THEN IF slice_panics(type_name, 1, Len(type_name) - 1) THEN Panic
         ELSE LET inner_type_name == slice(type_name, 1, Len(type_name) - 1)
                  array_params == split(s, ",")
              IN  IF IsInnerType(inner_type_name)
                  THEN array_param(inner_type_name, array_params)
                  ELSE Err("not supported input param type")
    ELSE IF starts_with(type_name, "{")
    THEN LET sep_pos == find(type_name, ":")
         IN  IF sep_pos = -1 THEN Err("not supported map param type")
             ELSE IF slice_panics(type_name, sep_pos + 1, Len(type_name) - 1) THEN Panic
             ELSE LET inner_type_name == slice(type_name, sep_pos + 1, Len(type_name) - 1)
                      params_pairs == split(s, ",")
                      splited == [k \in 1..Len(params_pairs) |-> split(params_pairs[k], ":")]
                      params_keys == [k \in 1..Len(params_pairs) |-> splited[k][1]]
                      params_values == [k \in 1..Len(params_pairs) |-> splited[k][2]]
                  IN  IF ~pairs_ok(params_pairs)
                      THEN Err("invalid map entry, expected k1:v1,k2:v2,...")
                      ELSE IF IsInnerType(inner_type_name)
                      THEN map_param(inner_type_name, params_keys, params_values)
                      ELSE ErrArg("not supported input param type {inner_type_name}",
                                  inner_type_name)
    ELSE ErrArg("not supported abi param type {input_type_name}", type_name)

-----------------------------------------------------------------------------
(* The inputs the parser is exercised on.                                  *)

MaxNumLen == 3   \* length of the tokens enumerated over NumAlphabet
MaxElems == 2    \* pieces of an array token
MaxPairs == 2    \* pairs of a map token

RECURSIVE Join(_, _)
Join(pieces, sep) ==
    IF Len(pieces) = 1 THEN pieces[1]
    ELSE pieces[1] \o <<sep>> \o Join(Tail(pieces), sep)

SeqsUpTo(S, n) == UNION {[1..k -> S] : k \in 0..n}

ScalarTypeNames ==
    {S_bool, S_str, S_string, S_parampack} \cup {t.name : t \in IntTypes}

ArrayTypeNames == {<<"[">> \o t \o <<"]">> : t \in ScalarTypeNames}

\* the key part of a map type name: "str", nothing, or any other text
KeyTexts == { S_str, <<>>, S_u8 }

MapTypeNames ==
    {<<"{">> \o k \o <<":">> \o t \o <<"}">> : k \in KeyTexts, t \in ScalarTypeNames}

\* names that match no production of the grammar
MalformedTypeNames ==
    { <<>>, <<"u">>, S_u8 \o <<"]">>, S_void,
      <<"[">>, <<"[">> \o S_u8, <<"[">> \o S_u8 \o <<"x">>, <<"[", "]">>,
      <<"[", "[">> \o S_u8 \o <<"]", "]">>,
      <<"{">>, <<"{", "}">>, <<"{">> \o S_str, <<"{">> \o S_str \o <<":">>,
      <<"{">> \o S_str \o <<":", "}">>,
      <<"{">> \o S_str \o <<":">> \o S_u8 \o <<"x">>,
      <<"{">> \o S_str \o <<":", "[">> \o S_u8 \o <<"]", "}">> }

TypeNames == ScalarTypeNames \cup ArrayTypeNames \cup MapTypeNames \cup MalformedTypeNames

\* decimal digits of 2^k, by repeated doubling
\* twice a digit sequence plus a carry below 2: a digit's carry out is 1
\* exactly when the digit is 5 or more
DoubleDigits(ds, carry) ==
    LET n == Len(ds)
        body == [k \in 1..n |->
                    (2 * ds[k] + (IF k = n THEN carry
                                  ELSE IF ds[k + 1] >= 5 THEN 1 ELSE 0)) % 10]
    IN  IF ds[1] >= 5 THEN <<1>> \o SubSeq(body, 1, n) ELSE SubSeq(body, 1, n)

RECURSIVE Doublings(_, _)
Doublings(k, acc) ==
    IF k = 0 THEN acc
    ELSE LET next == DoubleDigits(acc, 0)
         IN  IF Len(next) > 0 THEN Doublings(k - 1, next) ELSE next

\* sixteen doublings at a time, which keeps the evaluation shallow
RECURSIVE Pow2(_)
Pow2(k) ==
    IF k <= 16 THEN Doublings(k, <<1>>)
    ELSE LET low == Pow2(k - 16)
         IN  IF Len(low) > 0 THEN Doublings(16, low) ELSE low

\* 2^k + d for d in {-1, 0, 1} and k >= 1 (the last digit of 2^k is 2, 4, 6 or 8)
Pow2Plus(k, d) ==
    LET p == Pow2(k) IN [p EXCEPT ![Len(p)] = @ + d]

DigitChar(d) == CHOOSE c \in DigitChars : to_digit(c) = d
RECURSIVE DigitsText(_)
DigitsText(ds) ==
    IF ds = <<>> THEN <<>> ELSE <<DigitChar(Head(ds))>> \o DigitsText(Tail(ds))

BoundaryExponents == {7, 8, 15, 16, 31, 32, 63, 64, 127, 128}

BoundaryTokens ==
    UNION { { DigitsText(Pow2Plus(k, -1)), DigitsText(Pow2(k)),
              <<"-">> \o DigitsText(Pow2(k)), <<"-">> \o DigitsText(Pow2Plus(k, 1)) }
            : k \in BoundaryExponents }

NumAlphabet == {"0", "1", "9", "+", "-", " "}
NumTokens == SeqsUpTo(NumAlphabet, MaxNumLen)

OtherTokens ==
    { S_true, S_false, <<"T", "r", "u", "e">>, <<"a", "b">>, <<"a", "b", "c">>,
      <<"z", "z">>, <<"x">>, <<"0", "x", "1">>, <<"0", "x", "1", "f">>, <<"0", "0", "2", "5", "5">> }

ScalarTokens == NumTokens \cup BoundaryTokens \cup OtherTokens

ElemAtoms == { <<>>, S_true, S_false, <<"x">>, <<"7">>, <<"2", "5", "6">> }
ArrayTokens == {Join(ps, ",") : ps \in SeqsUpTo(ElemAtoms, MaxElems) \ {<<>>}}

KeyAtoms == { <<"a">>, <<"b">> }
ValueAtoms == { <<"1">>, <<"2">>, <<"x">>, S_true }
PairTexts ==
    KeyAtoms
    \cup {k \o <<":">> \o v : k \in KeyAtoms, v \in ValueAtoms}
    \cup {k \o <<":">> \o v \o <<":", "z">> : k \in KeyAtoms, v \in {<<"1">>, <<"2">>}}
MapTokens == {Join(ps, ",") : ps \in SeqsUpTo(PairTexts, MaxPairs) \ {<<>>}}

Tokens == ScalarTokens \cup ArrayTokens \cup MapTokens

-----------------------------------------------------------------------------
(* The parser as a system: one call of input_type_to_abi_param.            *)

EncodeIdle ==
    /\ self_inputs = <<>> /\ params_strings = <<>> /\ pc = "idle" /\ i = 0
    /\ result = <<>> /\ ret = NoOutcome

AbiIdle ==
    /\ functions = <<>> /\ abi = [abi_version |-> 0, methods |-> <<>>]
    /\ abi_method_name = <<>> /\ found = NoOutcome

InitParse ==
    /\ input_type_name \in TypeNames
    /\ param_str \in Tokens
    /\ out = NoOutcome
    /\ EncodeIdle
    /\ AbiIdle

ParseCall ==
    /\ out.kind = "Pending"
    /\ out' = input_type_to_abi_param(input_type_name, param_str)
    /\ UNCHANGED <<input_type_name, param_str, encodeVars, abiVars>>

NextParse == ParseCall

SpecParse == InitParse /\ [][NextParse]_vars

-----------------------------------------------------------------------------
(* ABIParam::as_bytes, the typed-value encoder of smart_ir::abi::params.   *)
(* Its byte layout is not part of this file; it is modelled as a tagged,   *)
(* length-prefixed layout, one byte per character or digit.                *)

CharTable ==
    <<"0", "1", "2", "3", "4", "5", "6", "7", "8", "9", "a", "b", "c", "d", "e", "f",
      "x", "z", "t", "r", "u", "l", "s", ":", ",", "+", "-", " ", "T", "A", "B", "C",
      "D", "E", "F">>

char_byte(c) == CHOOSE k \in 1..Len(CharTable) : CharTable[k] = c

variant_tag(variant) ==
    LET base == variant[IF Len(variant) = 3 THEN 2 ELSE 1]
        b == CASE base = "Bool" -> 0 [] base = "Str" -> 1 [] base = "Parampack" -> 2
               [] base = "U8" -> 3 [] base = "I8" -> 4 [] base = "U16" -> 5
               [] base = "I16" -> 6 [] base = "U32" -> 7 [] base = "I32" -> 8
               [] base = "U64" -> 9 [] base = "I64" -> 10 [] base = "U128" -> 11
               [] base = "I128" -> 12
    IN  b + (IF Len(variant) = 2 THEN 32 ELSE IF Len(variant) = 3 THEN 64 ELSE 0)

scalar_bytes(base, data) ==
    CASE base = "Bool" -> <<IF data THEN 1 ELSE 0>>
      [] base = "Str" -> <<Len(data)>> \o [k \in 1..Len(data) |-> char_byte(data[k])]
      [] base = "Parampack" -> <<Len(data)>> \o data
      [] OTHER -> <<Len(data.mag), IF data.neg THEN 1 ELSE 0>> \o data.mag

RECURSIVE array_bytes(_, _)
array_bytes(base, items) ==
    IF items = <<>> THEN <<>>
    ELSE scalar_bytes(base, Head(items)) \o array_bytes(base, Tail(items))

RECURSIVE map_bytes(_, _)
map_bytes(base, m) ==
    IF DOMAIN m = {} THEN <<>>
    ELSE LET key == CHOOSE k \in DOMAIN m : TRUE
         IN  scalar_bytes("Str", key) \o scalar_bytes(base, m[key])
             \o map_bytes(base, [k \in DOMAIN m \ {key} |-> m[k]])

as_bytes(p) ==
    <<variant_tag(p.variant)>> \o
    (IF Len(p.variant) = 1 THEN scalar_bytes(p.variant[1], p.data)
     ELSE IF Len(p.variant) = 2
          THEN <<Len(p.data)>> \o array_bytes(p.variant[1], p.data)
     ELSE <<Cardinality(DOMAIN p.data)>> \o map_bytes(p.variant[2], p.data))

-----------------------------------------------------------------------------
(* IRContractMethodMeta::encode_params, statement by statement.            *)

CURRENT_IR_ABI_VERSION == 1

MaxInputs == 2   \* declared inputs of a method, and tokens of a call

EncodeTypeNames ==
    { S_u8, S_bool, <<"[">> \o S_u8 \o <<"]">>,
      <<"{">> \o S_str \o <<":">> \o S_u8 \o <<"}">>, <<"[">>, <<"u">> }

EncodeTokens ==
    { <<"7">>, <<"x">>, <<"1", ",", "2">>, <<"1", ",", "x">>, <<"a", ":", "1">>,
      <<"a", ":", "x">> }

ParseIdle == input_type_name = <<>> /\ param_str = <<>> /\ out = NoOutcome

InitEncode ==
    /\ self_inputs \in SeqsUpTo(EncodeTypeNames, MaxInputs)
    /\ params_strings \in SeqsUpTo(EncodeTokens, MaxInputs)
    /\ pc = "start"
    /\ i = 0
    /\ result = <<>>
    /\ ret = NoOutcome
    /\ ParseIdle
    /\ AbiIdle

\* the count check written with the abi version as the first byte
EncodeCheckArity_version_byte ==
    /\ pc = "start"
    /\ IF Len(self_inputs) # Len(params_strings)
       THEN /\ ret' = Err("params count not match")
            /\ pc' = "returned"
            /\ UNCHANGED result
       ELSE /\ result' = <<CURRENT_IR_ABI_VERSION>>
            /\ pc' = "loop"
            /\ UNCHANGED ret
    /\ UNCHANGED <<self_inputs, params_strings, i, parseVars, abiVars>>

\* the count check rejecting only a call with too many tokens
EncodeCheckArity_excess_only ==
    /\ pc = "start"
    /\ IF Len(self_inputs) < Len(params_strings)
       THEN /\ ret' = Err("params count not match")
            /\ pc' = "returned"
            /\ UNCHANGED result
       ELSE /\ result' = <<0>>
            /\ pc' = "loop"
            /\ UNCHANGED ret
    /\ UNCHANGED <<self_inputs, params_strings, i, parseVars, abiVars>>

\* if self.inputs.len() != params_strings.len() { return Err(..) }
\* let mut result = vec![0x00];
EncodeCheckArity ==
    /\ pc = "start"
    /\ IF Len(self_inputs) # Len(params_strings)
       THEN /\ ret' = Err("params count not match")
            /\ pc' = "returned"
            /\ UNCHANGED result
       ELSE /\ result' = <<0>>
            /\ pc' = "loop"
            /\ UNCHANGED ret
    /\ UNCHANGED <<self_inputs, params_strings, i, parseVars, abiVars>>

\* one iteration of the loop over params_strings: parse, then return the
\* error, or append the bytes; a panic of the parser unwinds out of the call
EncodeParam ==
    /\ pc = "loop"
    /\ i < Len(params_strings)
    /\ LET abi_input_param ==
               input_type_to_abi_param(self_inputs[i + 1], params_strings[i + 1])
       IN  CASE abi_input_param.kind = "Panic" ->
                    /\ pc' = "panicked"
                    /\ result' = <<>>
                    /\ UNCHANGED <<i, ret>>
             [] abi_input_param.kind = "Err" ->
                    /\ ret' = abi_input_param
                    /\ pc' = "returned"
                    /\ result' = <<>>
                    /\ UNCHANGED i
             [] abi_input_param.kind = "Ok" ->
                    /\ result' = result \o as_bytes(abi_input_param.value)
                    /\ i' = i + 1
                    /\ UNCHANGED <<pc, ret>>
    /\ UNCHANGED <<self_inputs, params_strings, parseVars, abiVars>>

\* Ok(result)
EncodeReturn ==
    /\ pc = "loop"
    /\ i = Len(params_strings)
    /\ ret' = Ok(result)
    /\ result' = <<>>
    /\ pc' = "returned"
    /\ UNCHANGED <<self_inputs, params_strings, i, parseVars, abiVars>>

NextEncode == EncodeCheckArity \/ EncodeParam \/ EncodeReturn

SpecEncode == InitEncode /\ [][NextEncode]_vars

-----------------------------------------------------------------------------
(* IRContractABIMeta: from_contract and get_method.                        *)

MaxFunctions == 2   \* entries of contract.functions

\* the IR types of the function table, with Type::to_string and is_void of
\* smart_ir::ir::cfg
IRTypes == {"Void", "Bool", "Str", "U64"}

to_string(t) ==
    CASE t = "Void" -> S_void [] t = "Bool" -> S_bool [] t = "Str" -> S_str
      [] t = "U64" -> S_u64

is_void(t) == t = "Void"

FunctionNames ==
    { S_init, <<"A", ".">> \o S_init, <<"A", ".", "x">>, <<"B", ".", "x">>,
      <<"A", ".", "B", ".", "x">> }

ParamLists == { <<>>, <<"U64">>, <<"Str", "U64">> }

FunctionDefs == [params : ParamLists, ret : {"Void", "Bool"}]

FunctionEntries == [func_name : FunctionNames, func_def : FunctionDefs]

\* contract.functions is a map: its keys are distinct; the sequence is the
\* order in which iter() yields the entries
FunctionTables ==
    { t \in SeqsUpTo(FunctionEntries, MaxFunctions) :
        \A a, b \in 1..Len(t) : a # b => t[a].func_name # t[b].func_name }

DefaultABIMeta == [abi_version |-> 0, methods |-> <<>>]

None == [kind |-> "None"]
Some(index, m) == [kind |-> "Some", index |-> index, value |-> m]

\* abi_name with find in place of rfind (the text after the first '.')
abi_name_first_dot(func_name) ==
    LET first_dot_pos == find(func_name, ".")
    IN  IF first_dot_pos # -1
        THEN slice(func_name, first_dot_pos + 1, Len(func_name))
        ELSE func_name

\* the text after the last '.', or the whole name
abi_name(func_name) ==
    LET last_dot_pos == rfind(func_name, ".")
    IN  IF last_dot_pos # -1
        THEN slice(func_name, last_dot_pos + 1, Len(func_name))
        ELSE func_name

\* the body of the loop: the method pushed for one (func_name, func_def)
method_meta(func_name, func_def) ==
    LET inputs == [k \in 1..Len(func_def.params) |->
                      [name |-> <<>>, type |-> to_string(func_def.params[k])]]
        outputs == IF ~is_void(func_def.ret)
                   THEN <<[type |-> to_string(func_def.ret)]>>
                   ELSE <<>>
    IN  [name |-> abi_name(func_name),
         type |-> IF abi_name(func_name) = S_init THEN "constructor" ELSE "function",
         inputs |-> inputs,
         outputs |-> outputs]

RECURSIVE push_methods(_, _)
push_methods(entries, methods) ==
    IF entries = <<>> THEN methods
    ELSE push_methods(Tail(entries),
                      Append(methods, method_meta(Head(entries).func_name,
                                                  Head(entries).func_def)))

from_contract(contract_functions) ==
    [abi_version |-> CURRENT_IR_ABI_VERSION,
     methods |-> push_methods(contract_functions, <<>>)]

\* get_method scanning from the back (rposition in place of find)
RECURSIVE get_method_last(_, _, _)
get_method_last(methods, name, index) ==
    IF index >= Len(methods) THEN None
    ELSE LET later == get_method_last(methods, name, index + 1)
         IN  IF later.kind = "Some" THEN later
             ELSE IF methods[index + 1].name = name
                  THEN Some(index, methods[index + 1])
             ELSE None

\* self.methods.iter().find(|&m| m.name == abi_method_name), from position index
RECURSIVE get_method(_, _, _)
get_method(methods, name, index) ==
    IF index >= Len(methods) THEN None
    ELSE IF methods[index + 1].name = name THEN Some(index, methods[index + 1])
    ELSE get_method(methods, name, index + 1)

LookupNames == { S_init, <<"x">>, <<"B", ".", "x">>, <<"y">> }

Init ==
    /\ functions \in FunctionTables
    /\ abi = DefaultABIMeta
    /\ abi_method_name = <<>>
    /\ found = NoOutcome
    /\ ParseIdle
    /\ EncodeIdle

\* abi = IRContractABIMeta::from_contract(&contract); a reference obtained
\* from the replaced value does not outlive it
FromContract ==
    /\ abi' = from_contract(functions)
    /\ found' = NoOutcome
    /\ abi_method_name' = <<>>
    /\ UNCHANGED <<functions, parseVars, encodeVars>>

\* found = abi.get_method(name)
GetMethod ==
    \E name \in LookupNames :
        /\ abi_method_name' = name
        /\ found' = get_method(abi.methods, name, 0)
        /\ UNCHANGED <<functions, abi, parseVars, encodeVars>>

Next == FromContract \/ GetMethod

Spec == Init /\ [][Next]_vars

-----------------------------------------------------------------------------
(* Claims about the scalar integer parser.                                 *)

NumberFormatMsgs ==
    { "cannot parse integer from empty string", "invalid digit found in string",
      "number too large to fit in target type", "number too small to fit in target type" }

UnsupportedMsgs ==
    { "not supported input param type", "not supported input param type {inner_type_name}",
      "not supported map param type", "not supported abi param type {input_type_name}" }

InvalidMapEntryMsg == "invalid map entry, expected k1:v1,k2:v2,..."

Returned == out.kind # "Pending"

\* base-10 text: an optional sign and at least one digit
DecimalBody(s) == IF s[1] \in {"+", "-"} THEN Tail(s) ELSE s
DecimalText(s) ==
    /\ Len(s) >= 1
    /\ Len(DecimalBody(s)) >= 1
    /\ \A k \in 1..Len(DecimalBody(s)) : DecimalBody(s)[k] \in DigitChars

\* the integer a base-10 text denotes
DecimalValue(s) ==
    LET body == DecimalBody(s)
        mag == StripZeros([k \in 1..Len(body) |-> to_digit(body[k])])
    IN  [neg |-> s[1] = "-" /\ mag # <<0>>, mag |-> mag]

MagLess(a, b) == MagLeq(a, b) /\ a # b

\* 0..2^w-1 unsigned, -2^(w-1)..2^(w-1)-1 signed
InRange(w, signed, v) ==
    IF signed
    THEN IF v.neg THEN MagLeq(v.mag, Pow2(w - 1)) ELSE MagLess(v.mag, Pow2(w - 1))
    ELSE ~v.neg /\ MagLess(v.mag, Pow2(w))

IntCallYields(accepted) ==
    LET t == IntType(input_type_name)
    IN  IF accepted
        THEN /\ out.kind = "Ok"
             /\ out.value = ABIParam(<<t.variant>>, DecimalValue(param_str))
        ELSE /\ out.kind = "Err"
             /\ out.msg \in NumberFormatMsgs

\* C5 as stated: an integer type yields the token's value exactly when the
\* token is base-10 text whose value is in the type's range, and a
\* number-format error otherwise.
C5_AsStated ==
    (Returned /\ IsIntType(input_type_name)) =>
        IntCallYields(/\ DecimalText(param_str)
                      /\ InRange(IntType(input_type_name).w, IntType(input_type_name).signed,
                                 DecimalValue(param_str)))

\* C5 amended: as C5, except that an unsigned type rejects every token with
\* a '-' sign, also one whose value is zero ("-0"), with the same error.
C5_IntegerParse ==
    (Returned /\ IsIntType(input_type_name)) =>
        IntCallYields(/\ DecimalText(param_str)
                      /\ (param_str[1] = "-" => IntType(input_type_name).signed)
                      /\ InRange(IntType(input_type_name).w, IntType(input_type_name).signed,
                                 DecimalValue(param_str)))

\* u128 on the text of 2^128 - 1 has yielded that value
C5_Witness ==
    /\ input_type_name = S_u128
    /\ param_str = DigitsText(Pow2Plus(128, -1))
    /\ out.kind = "Ok"
    /\ out.value.data.mag = Pow2Plus(128, -1)

-----------------------------------------------------------------------------
(* Claims about array tokens, map tokens and type names.                   *)

ArrayInner(name) == SubSeq(name, 2, Len(name) - 1)
MapInner(name) == SubSeq(name, find(name, ":") + 2, Len(name) - 1)

CountOf(s, c) == Cardinality({k \in 1..Len(s) : s[k] = c})

\* C4 as stated: an array token yields, in order, the scalar parser's value
\* of each of its (commas + 1) pieces, and a returned parse error as soon as
\* one piece is invalid for the scalar parser.
C4_AsStated ==
    (Returned /\ input_type_name \in ArrayTypeNames /\ IsInnerType(ArrayInner(input_type_name)))
    => LET pieces == split(param_str, ",")
           parsed == [k \in 1..Len(pieces) |->
                         scalar_param(ArrayInner(input_type_name), pieces[k])]
       IN  IF \A k \in 1..Len(pieces) : parsed[k].kind = "Ok"
           THEN /\ out.kind = "Ok"
                /\ Len(out.value.data) = CountOf(param_str, ",") + 1
                /\ \A k \in 1..Len(pieces) : out.value.data[k] = parsed[k].value.data
           ELSE out.kind = "Err"

\* what the element parser of an inner type accepts, and the value it gives
ValidFor(inner, v) ==
    IF inner = S_bool THEN v \in {S_true, S_false}
    ELSE IF inner \in {S_str, S_string} THEN TRUE
    ELSE /\ DecimalText(v)
         /\ (v[1] = "-" => IntType(inner).signed)
         /\ InRange(IntType(inner).w, IntType(inner).signed, DecimalValue(v))

ValueFor(inner, v) ==
    IF inner = S_bool THEN v = S_true
    ELSE IF inner \in {S_str, S_string} THEN v
    ELSE DecimalValue(v)

PairKey(p) == split(p, ":")[1]
PairValue(p) == split(p, ":")[2]

\* C6: a map token with a pair of fewer than two ':'-separated pieces, at
\* any position and whatever the other pairs are, returns the invalid map
\* entry error; a token whose pairs all have a key and a value valid for the
\* value type yields the map of those entries.
C6_MapEntries ==
    (Returned /\ input_type_name \in MapTypeNames)
    => LET pairs == split(param_str, ",")
           inner == MapInner(input_type_name)
       IN  IF \E k \in 1..Len(pairs) : CountOf(pairs[k], ":") = 0
           THEN out = Err(InvalidMapEntryMsg)
           ELSE (/\ IsInnerType(inner)
                 /\ \A k \in 1..Len(pairs) : ValidFor(inner, PairValue(pairs[k])))
                => /\ out.kind = "Ok"
                   /\ DOMAIN out.value.data = {PairKey(pairs[k]) : k \in 1..Len(pairs)}
                   /\ \A k \in 1..Len(pairs) :
                        (\A j \in (k + 1)..Len(pairs) : PairKey(pairs[j]) # PairKey(pairs[k]))
                        => out.value.data[PairKey(pairs[k])] =
                               ValueFor(inner, PairValue(pairs[k]))

\* {str:u8} on "a:1,b" has returned the invalid map entry error
C6_Witness ==
    /\ input_type_name = <<"{">> \o S_str \o <<":">> \o S_u8 \o <<"}">>
    /\ param_str = <<"a", ":", "1", ",", "b">>
    /\ out = Err(InvalidMapEntryMsg)

\* C7 as stated: a type name outside the grammar is rejected with a
\* returned unsupported-type error, never accepted and never a panic.
C7_AsStated ==
    (Returned /\ input_type_name \in MalformedTypeNames)
    => (out.kind = "Err" /\ out.msg \in UnsupportedMsgs)

-----------------------------------------------------------------------------
(* Claims about encode_params.                                             *)

ArityMatches == Len(self_inputs) = Len(params_strings)

ParamOutcome(k) == input_type_to_abi_param(self_inputs[k], params_strings[k])

EveryParamParses == \A k \in 1..Len(params_strings) : ParamOutcome(k).kind = "Ok"

\* bytes(param_k) ++ ... ++ bytes(param_n)
RECURSIVE BytesFrom(_)
BytesFrom(k) ==
    IF k > Len(params_strings) THEN <<>>
    ELSE as_bytes(ParamOutcome(k).value) \o BytesFrom(k + 1)

\* C1: when the counts match and every parameter parses, the call returns
\* the byte 0x00 followed by the encoder's bytes of each parameter, in
\* declaration order with nothing between them ([0x00] alone for no input).
C1_EncodeLayout ==
    (pc = "returned" /\ ArityMatches /\ EveryParamParses)
    => ret = Ok(<<0>> \o BytesFrom(1))

\* inputs ["u8", "[u8]"] on tokens ["7", "1,2"] have been encoded
C1_Witness ==
    /\ pc = "returned"
    /\ self_inputs = <<S_u8, <<"[">> \o S_u8 \o <<"]">> >>
    /\ params_strings = << <<"7">>, <<"1", ",", "2">> >>
    /\ ret.kind = "Ok"
    /\ Len(ret.value) > 1

\* C2: a call whose token count differs from the declared input count
\* returns the count error and no bytes, whatever the types and tokens are;
\* no parameter is parsed (the call never enters the loop, never panics).
C2_ArityMismatch ==
    ~ArityMatches
    => /\ pc \in {"start", "returned"}
       /\ result = <<>>
       /\ pc = "returned" => ret = Err("params count not match")

\* one token for the inputs ["[", "u"], types no token parses against
C2_Witness ==
    /\ pc = "returned"
    /\ self_inputs = << <<"[">>, <<"u">> >>
    /\ Len(params_strings) = 1
    /\ ret = Err("params count not match")

\* C3 as stated: when the counts match and a parameter fails, the call
\* returns an error value, and no call ends in a panic.
C3_AsStated ==
    /\ pc # "panicked"
    /\ (pc = "returned" /\ ArityMatches /\ ~EveryParamParses) => ret.kind = "Err"

-----------------------------------------------------------------------------
(* Claims about from_contract and get_method.                              *)

Built == abi # DefaultABIMeta

\* the suffix of q that holds no '.' and starts the name or follows a '.'
AfterLastDot(q) ==
    LET start == CHOOSE k \in 1..(Len(q) + 1) :
                     /\ \A j \in k..Len(q) : q[j] # "."
                     /\ (k = 1 \/ q[k - 1] = ".")
    IN  SubSeq(q, start, Len(q))

MethodMatches(m, e) ==
    /\ m.name = AfterLastDot(e.func_name)
    /\ m.type = (IF m.name = S_init THEN "constructor" ELSE "function")
    /\ Len(m.inputs) = Len(e.func_def.params)
    /\ \A j \in 1..Len(m.inputs) :
          m.inputs[j] = [name |-> <<>>, type |-> to_string(e.func_def.params[j])]
    /\ Len(m.outputs) <= 1
    /\ IF e.func_def.ret = "Void" THEN m.outputs = <<>>
       ELSE m.outputs = <<[type |-> to_string(e.func_def.ret)]>>

\* C8: the built metadata has the current version and one method per entry
\* of the function table; each method has the text after the last '.' of
\* the qualified name as its name, is a constructor exactly when that name
\* is "init", has one unnamed input per parameter in declaration order, and
\* has no output for a void return and one output otherwise.
C8_BuildShape ==
    Built => /\ abi.abi_version = CURRENT_IR_ABI_VERSION
             /\ Len(abi.methods) = Len(functions)
             /\ \A k \in 1..Len(functions) : MethodMatches(abi.methods[k], functions[k])

\* "A.B.x" with parameters (str, u64) returning bool has been built
C8_Witness ==
    /\ functions = << [func_name |-> <<"A", ".", "B", ".", "x">>,
                       func_def |-> [params |-> <<"Str", "U64">>, ret |-> "Bool"]] >>
    /\ abi.methods = << [name |-> <<"x">>, type |-> "function",
                         inputs |-> << [name |-> <<>>, type |-> S_str],
                                       [name |-> <<>>, type |-> S_u64] >>,
                         outputs |-> << [type |-> S_bool] >>] >>

EntriesOf(t) == {t[k] : k \in 1..Len(t)}

\* C9 as stated: the methods list depends on the set of entries of the
\* function table alone, not on the order in which the table yields them.
C9_AsStated ==
    Built => \A t \in FunctionTables :
                 EntriesOf(t) = EntriesOf(functions)
                 => from_contract(t).methods = abi.methods

\* C10: a lookup returns the method at the lowest index whose name equals
\* the argument, and nothing exactly when no method has that name; a method
\* that follows another of the same name is returned by no lookup.
C10_FirstMatch ==
    found.kind # "Pending"
    => LET matches == {k \in 1..Len(abi.methods) : abi.methods[k].name = abi_method_name}
       IN  IF matches = {} THEN found = None
           ELSE /\ found.kind = "Some"
                /\ found.index + 1 \in matches
                /\ \A k \in matches : found.index + 1 <= k
                /\ found.value = abi.methods[found.index + 1]

\* two methods are named "x" and the lookup of "x" has returned the first
C10_Witness ==
    /\ Len(abi.methods) = 2
    /\ abi.methods[1].name = <<"x">>
    /\ abi.methods[2].name = <<"x">>
    /\ abi.methods[1] # abi.methods[2]
    /\ abi_method_name = <<"x">>
    /\ found = Some(0, abi.methods[1])

-----------------------------------------------------------------------------
(* Claims about the inner types of arrays and maps, and about map entries. *)

\* a token the scalar type accepts: hex text of even length for parampack
ScalarValid(inner, v) ==
    IF inner = S_parampack THEN hex_decode(v).kind = "Ok" ELSE ValidFor(inner, v)

EveryPieceValid ==
    \A k \in 1..Len(split(param_str, ",")) :
        ScalarValid(ArrayInner(input_type_name), split(param_str, ",")[k])

EveryPairValid ==
    \A k \in 1..Len(split(param_str, ",")) :
        LET p == split(param_str, ",")[k]
        IN  /\ CountOf(p, ":") >= 1
            /\ ScalarValid(MapInner(input_type_name), PairValue(p))

\* the map type name with the key part "str" and the same value type
WithStrKey(name) == <<"{">> \o S_str \o <<":">> \o MapInner(name) \o <<"}">>

KeyIgnored ==
    (Returned /\ input_type_name \in MapTypeNames)
    => out = input_type_to_abi_param(WithStrKey(input_type_name), param_str)

KeyOf(p) == SubSeq(p, 1, find(p, ":"))
AfterKey(p) == SubSeq(p, find(p, ":") + 2, Len(p))
ValueOf(p) ==
    IF find(AfterKey(p), ":") = -1 THEN AfterKey(p)
    ELSE SubSeq(AfterKey(p), 1, find(AfterKey(p), ":"))

TokenPairs == split(param_str, ",")

\* the index of the last pair of the token with the given key
LastPairWith(key) ==
    CHOOSE k \in 1..Len(TokenPairs) :
        /\ KeyOf(TokenPairs[k]) = key
        /\ \A j \in (k + 1)..Len(TokenPairs) : KeyOf(TokenPairs[j]) # key

\* the token with every pair cut down to its first two pieces
TwoPieceToken ==
    Join([k \in 1..Len(TokenPairs) |->
             KeyOf(TokenPairs[k]) \o <<":">> \o ValueOf(TokenPairs[k])], ",")

\* C12: for a map token whose pairs all have two or more pieces and a value
\* piece valid for the value type, the result is the map whose keys are the
\* first pieces, each bound to the parsed second piece of the last pair with
\* that key; the pieces after the second change nothing.
C12_LastWins ==
    (/\ Returned
     /\ input_type_name \in MapTypeNames
     /\ IsInnerType(MapInner(input_type_name))
     /\ \A k \in 1..Len(TokenPairs) :
            /\ CountOf(TokenPairs[k], ":") >= 1
            /\ ValidFor(MapInner(input_type_name), ValueOf(TokenPairs[k])))
    => /\ out.kind = "Ok"
       /\ DOMAIN out.value.data = {KeyOf(TokenPairs[k]) : k \in 1..Len(TokenPairs)}
       /\ \A key \in DOMAIN out.value.data :
              out.value.data[key] =
                  ValueFor(MapInner(input_type_name), ValueOf(TokenPairs[LastPairWith(key)]))
       /\ out = input_type_to_abi_param(input_type_name, TwoPieceToken)

\* {str:u8} on "a:1,a:2:z" has yielded the map a -> 2
C12_Witness ==
    /\ input_type_name = <<"{">> \o S_str \o <<":">> \o S_u8 \o <<"}">>
    /\ param_str = <<"a", ":", "1", ",", "a", ":", "2", ":", "z">>
    /\ out.kind = "Ok"
    /\ out.value.data = [k \in {<<"a">>} |-> [neg |-> FALSE, mag |-> <<2>>]]

====
